---- MODULE Spec2Model ----
(***************************************************************************)
(* Model of public/samples/photos/compress.py: a script that creates the   *)
(* directory "resized" under the working directory, lists the working      *)
(* directory once and calls the external command "magick" for every entry  *)
(* whose lowercased suffix is an image extension.                          *)
(*                                                                         *)
(* A file name is a tuple of one-character strings, a path is a tuple of   *)
(* names (its components below the working directory), so that suffix,     *)
(* lower() and path joining are computed, not assumed.                     *)
(***************************************************************************)
EXTENDS Integers, Sequences, FiniteSets, TLC

VARIABLES
    fs,             \* the file system below the working directory: path -> content
    writable,       \* the working directory accepts new entries
    toolInstalled,  \* the executable "magick" can be started
    run,            \* 1 for the first run of the script, 2 for the second
    pc,             \* position of the script
    error,          \* the exception that ended the script, "none" if none
    mkdirCalls,     \* calls of output_dir.mkdir in this run
    listing,        \* the names input_dir.iterdir() produced, in its order
    i,              \* number of entries of the listing the loop is done with
    invocations,    \* argument lists given to subprocess.run in this run
    proc,           \* how the child process now running will end
    children,       \* number of child processes now running
    writes          \* history: the files the children of this run wrote, and
                    \* what each path held before ("absent" if nothing)

vars == <<fs, writable, toolInstalled, run, pc, error, mkdirCalls, listing, i,
          invocations, proc, children, writes>>

\* Largest number of entries the working directory holds before the first run.
MaxEntries == 2

---------------------------------------------------------------------------
\* File names

a_jpg      == <<"a", ".", "j", "p", "g">>
b_PNG      == <<"b", ".", "P", "N", "G">>
c_jpg_txt  == <<"c", ".", "j", "p", "g", ".", "t", "x", "t">>
hidden_bmp == <<".", "b", "m", "p">>
f_x_WebP   == <<"f", ".", "x", ".", "W", "e", "b", "P">>
h_bmp      == <<"h", ".", "b", "m", "p">>
sub_jpeg   == <<"s", "u", "b", ".", "j", "p", "e", "g">>
deep_jpg   == <<"d", "e", "e", "p", ".", "j", "p", "g">>
resized    == <<"r", "e", "s", "i", "z", "e", "d">>

\* Regular files the working directory may hold.
FileNames == {a_jpg, b_PNG, c_jpg_txt, hidden_bmp, f_x_WebP, h_bmp}
\* A subdirectory the working directory may hold; it contains deep.jpg.
DirNames == {sub_jpeg}
EntryNames == FileNames \cup DirNames

---------------------------------------------------------------------------
\* str.lower() on the characters that occur in the names.
LowerChar(c) ==
    CASE c = "P" -> "p"
      [] c = "N" -> "n"
      [] c = "G" -> "g"
      [] c = "W" -> "w"
      [] OTHER -> c

lower(s) == [k \in 1..Len(s) |-> LowerChar(s[k])]

\* str.rfind("."), counted from 1; 0 when there is no dot.
RFindDot(name) ==
    LET dots == {k \in 1..Len(name) : name[k] = "."}
    IN IF dots = {} THEN 0 ELSE CHOOSE k \in dots : \A m \in dots : m <= k

\* PurePath.suffix: the part of the name from its last dot, empty when the
\* name has no dot or the last dot is its first or its last character.
suffix(name) ==
    LET k == RFindDot(name)
    IN IF 1 < k /\ k < Len(name) THEN SubSeq(name, k, Len(name)) ELSE <<>>

extensions ==
    { <<".", "j", "p", "g">>,
      <<".", "j", "p", "e", "g">>,
      <<".", "p", "n", "g">>,
      <<".", "w", "e", "b", "p">>,
      <<".", "b", "m", "p">> }

\* input_dir / name: Path(".") joined with a name is the name alone.
img_path(name) == <<name>>

\* output_dir == input_dir / "resized"
output_dir == <<resized>>

\* Variant: the name is lowercased on the way to the destination.
out_path_lowercased(name) == Append(output_dir, lower(name))

\* Variant: the destination is built in the input directory.
out_path_in_input_dir(name) == img_path(name)

\* out_path == output_dir / img.name
out_path(name) == Append(output_dir, name)

\* Variant: the suffix is compared without lower().
IsCandidateCaseSensitive(name) == suffix(name) \in extensions

\* Variant: an entry whose destination already exists is left out.
IsCandidateUnlessOutputExists(name) ==
    lower(suffix(name)) \in extensions /\ out_path(name) \notin DOMAIN fs

\* The test of the loop body.
IsCandidate(name) == lower(suffix(name)) \in extensions

\* The argument list of subprocess.run for one entry.
Argv(name) == <<"magick", img_path(name), "-resize", "512x512>", out_path(name)>>

---------------------------------------------------------------------------
\* The file system

\* The path the operating system reaches: a "resized" that is a symbolic link
\* to the working directory leads back into the working directory.
Resolve(p) ==
    IF Len(p) > 1 /\ <<p[1]>> \in DOMAIN fs /\ fs[<<p[1]>>] = "link"
    THEN Tail(p) ELSE p

\* Path.is_dir(), which follows symbolic links.
is_dir(p) == p \in DOMAIN fs /\ fs[p] \in {"dir", "link"}

\* os.listdir: the names of the direct entries of the working directory.
DirectEntries == {p[1] : p \in {q \in DOMAIN fs : Len(q) = 1}}

\* The orders in which a listing may produce the names of S.
Orderings(S) ==
    {s \in [1..Cardinality(S) -> S] : {s[k] : k \in 1..Cardinality(S)} = S}

\* The content a conversion of this run writes.
Output == IF run = 1 THEN "out1" ELSE "out2"

\* Variant: mkdir() without exist_ok raises for every existing path.
MkdirAcceptsNothing(p) == FALSE

\* Variant: every existing path is accepted, directory or not.
MkdirAcceptsAnything(p) == p \in DOMAIN fs

\* mkdir(exist_ok=True) on an existing path: no error when it is a directory.
MkdirAccepts(p) == is_dir(p)

\* Variant: the listing is walked from its end.
NextEntryReversed(k) == listing[Len(listing) - k]

\* The entry the loop takes after k entries.
NextEntry(k) == listing[k + 1]

\* How a child started for an entry may end: it exits with 0 after writing its
\* output, exits with another status, or never exits. A directory is no image:
\* a child given one as its source does not succeed.
Outcomes(name) ==
    IF is_dir(img_path(name)) THEN {"exitN", "hang"} ELSE {"exit0", "exitN", "hang"}

\* Variant: the wait is given up (a timeout), whatever the child does.
ProcReturnsAnyway(p) == TRUE

\* subprocess.run waits for the child: it returns when the child exits.
ProcReturns(p) == p \in {"exit0", "exitN"}

---------------------------------------------------------------------------
\* The directories the first run may start in.

EntrySets == {S \in SUBSET EntryNames : Cardinality(S) <= MaxEntries}

TreeOf(S) ==
    {<<n>> : n \in S} \cup {<<n, deep_jpg>> : n \in S \cap DirNames}

ContentOf(p) == IF Len(p) = 1 /\ p[1] \in DirNames THEN "dir" ELSE "input"

\* What "resized" is before the first run: absent, a directory, a directory
\* holding an older output of a.jpg, a regular file, a symbolic link to ".".
ResizedStates == {"absent", "dir", "stale", "file", "link"}

ResizedTree(r) ==
    CASE r = "absent" -> {}
      [] r = "stale" -> {output_dir, out_path(a_jpg)}
      [] OTHER -> {output_dir}

ResizedContent(r, p) ==
    IF p = output_dir
    THEN (CASE r = "file" -> "blocker" [] r = "link" -> "link" [] OTHER -> "dir")
    ELSE "stale"

InitialFs(S, r) ==
    [p \in TreeOf(S) \cup ResizedTree(r) |->
        IF p \in ResizedTree(r) THEN ResizedContent(r, p) ELSE ContentOf(p)]

Init ==
    /\ \E S \in EntrySets, r \in ResizedStates :
          /\ r = "stale" => a_jpg \in S
          /\ fs = InitialFs(S, r)
          /\ writable \in (IF r = "absent" THEN BOOLEAN ELSE {TRUE})
    /\ toolInstalled \in BOOLEAN
    /\ run = 1
    /\ pc = "mkdir"
    /\ error = "none"
    /\ mkdirCalls = 0
    /\ listing = <<>>
    /\ i = 0
    /\ invocations = <<>>
    /\ proc = "none"
    /\ children = 0
    /\ writes = <<>>

---------------------------------------------------------------------------
\* The steps of the script

\* output_dir.mkdir(exist_ok=True)
Mkdir ==
    /\ pc = "mkdir"
    /\ mkdirCalls' = mkdirCalls + 1
    /\ IF output_dir \in DOMAIN fs
       THEN /\ fs' = fs
            /\ IF MkdirAccepts(output_dir)
               THEN pc' = "list" /\ error' = error
               ELSE pc' = "crashed" /\ error' = "FileExistsError"
       ELSE IF writable
            THEN /\ fs' = [p \in DOMAIN fs \cup {output_dir} |->
                              IF p = output_dir THEN "dir" ELSE fs[p]]
                 /\ pc' = "list" /\ error' = error
            ELSE /\ fs' = fs
                 /\ pc' = "crashed" /\ error' = "PermissionError"
    /\ UNCHANGED <<writable, toolInstalled, run, listing, i, invocations, proc, children, writes>>

\* input_dir.iterdir(): the listing is read once, when the loop starts.
Iterdir ==
    /\ pc = "list"
    /\ listing' \in Orderings(DirectEntries)
    /\ i' = 0
    /\ pc' = "loop"
    /\ UNCHANGED <<fs, writable, toolInstalled, run, error, mkdirCalls,
                   invocations, proc, children, writes>>

\* An entry whose suffix is no image extension: the loop body does nothing.
Skip ==
    /\ pc = "loop"
    /\ i < Len(listing)
    /\ ~IsCandidate(NextEntry(i))
    /\ i' = i + 1
    /\ UNCHANGED <<fs, writable, toolInstalled, run, pc, error, mkdirCalls,
                   listing, invocations, proc, children, writes>>

\* subprocess.run([...]) starts the child and waits for it.
Spawn ==
    /\ pc = "loop"
    /\ i < Len(listing)
    /\ IsCandidate(NextEntry(i))
    /\ toolInstalled
    /\ invocations' = Append(invocations, Argv(NextEntry(i)))
    /\ proc' \in Outcomes(NextEntry(i))
    /\ children' = children + 1
    /\ pc' = "running"
    /\ UNCHANGED <<fs, writable, toolInstalled, run, error, mkdirCalls, listing, i,
                   writes>>

\* subprocess.run([...]) when the executable cannot be started: Popen raises
\* FileNotFoundError, which nothing catches.
SpawnFails ==
    /\ pc = "loop"
    /\ i < Len(listing)
    /\ IsCandidate(NextEntry(i))
    /\ ~toolInstalled
    /\ invocations' = Append(invocations, Argv(NextEntry(i)))
    /\ pc' = "crashed"
    /\ error' = "FileNotFoundError"
    /\ UNCHANGED <<fs, writable, toolInstalled, run, mkdirCalls, listing, i,
                   proc, children, writes>>

\* The child exits and subprocess.run returns; the exit status is not read.
\* A child that exits with 0 has written its last argument.
ToolExit ==
    /\ pc = "running"
    /\ ProcReturns(proc)
    /\ LET dest == Resolve(invocations[Len(invocations)][5])
           old  == IF dest \in DOMAIN fs THEN fs[dest] ELSE "absent"
       IN IF proc = "exit0"
          THEN /\ fs' = [p \in DOMAIN fs \cup {dest} |->
                            IF p = dest THEN Output ELSE fs[p]]
               /\ writes' = Append(writes, [path |-> dest, old |-> old])
          ELSE UNCHANGED <<fs, writes>>
    /\ children' = children - 1
    /\ proc' = "none"
    /\ i' = i + 1
    /\ pc' = "loop"
    /\ UNCHANGED <<writable, toolInstalled, run, error, mkdirCalls, listing, invocations>>

\* The listing is exhausted: the script ends.
Finish ==
    /\ pc = "loop"
    /\ i = Len(listing)
    /\ pc' = "done"
    /\ UNCHANGED <<fs, writable, toolInstalled, run, error, mkdirCalls, listing,
                   i, invocations, proc, children, writes>>

\* The script is started again in the same directory.
Rerun ==
    /\ pc \in {"done", "crashed"}
    /\ run = 1
    /\ run' = 2
    /\ pc' = "mkdir"
    /\ error' = "none"
    /\ mkdirCalls' = 0
    /\ listing' = <<>>
    /\ i' = 0
    /\ invocations' = <<>>
    /\ writes' = <<>>
    /\ UNCHANGED <<fs, writable, toolInstalled, proc, children>>

Step == Mkdir \/ Iterdir \/ Skip \/ Spawn \/ SpawnFails \/ ToolExit \/ Finish

Next == Step \/ Rerun

Spec == Init /\ [][Next]_vars

\* One run of the script: the interpreter keeps running it, and a child that
\* exits is reaped.
FairSpec == Init /\ [][Step]_vars /\ WF_vars(Step)

---------------------------------------------------------------------------
\* Vocabulary of the properties

\* The image suffixes, as the properties spell them.
ImageSuffixes ==
    { <<".", "j", "p", "g">>, <<".", "j", "p", "e", "g">>, <<".", "p", "n", "g">>,
      <<".", "w", "e", "b", "p">>, <<".", "b", "m", "p">> }

\* The name is a non-empty stem followed by a final suffix (a dot and then no
\* further dot) that is, lowercased, an image suffix.
HasImageSuffix(name) ==
    \E k \in 2..Len(name) :
        /\ name[k] = "."
        /\ \A m \in (k + 1)..Len(name) : name[m] /= "."
        /\ lower(SubSeq(name, k, Len(name))) \in ImageSuffixes

\* The source paths subprocess.run was given in this run.
Sources == {invocations[k][2] : k \in 1..Len(invocations)}

\* The entries of the listing with an image suffix, in the listing's order.
Candidates == SelectSeq(listing, HasImageSuffix)

\* The argument list a candidate is to be converted with.
ExpectedArgv(name) == <<"magick", <<name>>, "-resize", "512x512>", <<resized, name>>>>

\* The loop is at an entry with an image suffix.
AtCandidate == pc = "loop" /\ i < Len(listing) /\ HasImageSuffix(listing[i + 1])

\* subprocess.run has been called for the entry the loop is at.
InFlight == pc = "running" \/ (pc = "crashed" /\ error = "FileNotFoundError")

\* The entries the loop has taken so far.
Taken == {listing[k] : k \in 1..(IF InFlight THEN i + 1 ELSE i)}

---------------------------------------------------------------------------
\* C1: an entry of the working directory the loop has taken was passed to
\* subprocess.run if and only if its final suffix, lowercased, is one of .jpg,
\* .jpeg, .png, .webp, .bmp; nothing else is ever passed, in particular no
\* path below a subdirectory and not "resized"; a run that ends normally has
\* taken every direct entry.
C1_CandidateSelection ==
    /\ \A n \in Taken : (<<n>> \in Sources) <=> HasImageSuffix(n)
    /\ \A src \in Sources : Len(src) = 1 /\ src[1] \in Taken /\ src[1] /= resized
    /\ pc \in {"loop", "running", "done"} =>
          {listing[k] : k \in 1..Len(listing)} = {p[1] : p \in {q \in DOMAIN fs : Len(q) = 1}}
    /\ pc = "done" => i = Len(listing)

C1_Witness ==
    /\ pc = "done"
    /\ <<b_PNG>> \in Sources
    /\ <<c_jpg_txt>> \in DOMAIN fs /\ <<c_jpg_txt>> \notin Sources
    /\ <<resized>> \in DOMAIN fs

\* C2: a tool that cannot be started, or that fails on a candidate, does not
\* end the script: the script never ends with the tool's error, and when it
\* has ended after listing the directory, subprocess.run was called for every
\* candidate.
C2_ToolFailureIgnored ==
    /\ ~(pc = "crashed" /\ error = "FileNotFoundError")
    /\ (pc \in {"done", "crashed"} /\ error \notin {"FileExistsError", "PermissionError"})
          => Len(invocations) = Len(Candidates)

\* C3: in a second run that finds "resized" as a directory, mkdir changes
\* nothing and raises nothing, and the run goes on to list the directory.
C3_SecondRunMkdirNoOp ==
    [][(run = 2 /\ pc = "mkdir" /\ output_dir \in DOMAIN fs /\ fs[output_dir] = "dir")
          => (pc' = "list" /\ fs' = fs /\ error' = "none")]_vars

C3_Witness ==
    /\ run = 2
    /\ pc = "done"
    /\ Len(invocations) > 0
    /\ fs[output_dir] = "dir"
    /\ \E p \in DOMAIN fs : fs[p] = "out1"

\* The state part of C4: calls only while "resized" is a directory, one mkdir
\* per run before the listing, no listing and no call after a failed mkdir.
C4_Inv ==
    /\ Len(invocations) > 0 =>
          (output_dir \in DOMAIN fs /\ fs[output_dir] \in {"dir", "link"})
    /\ mkdirCalls = (IF pc = "mkdir" THEN 0 ELSE 1)
    /\ pc = "mkdir" => (listing = <<>> /\ invocations = <<>>)
    /\ (pc = "crashed" /\ error \in {"FileExistsError", "PermissionError"})
          => (listing = <<>> /\ invocations = <<>>)

\* "resized" is missing where nothing can be created, or is a regular file.
C4_CreationImpossible ==
    \/ output_dir \notin DOMAIN fs /\ ~writable
    \/ output_dir \in DOMAIN fs /\ fs[output_dir] = "blocker"

\* C4: subprocess.run is called only while "resized" is a directory; mkdir is
\* called exactly once per run, before the listing and before any call; when
\* the directory cannot be created (no permission, or "resized" is a file) the
\* script ends with the error after no call and no listing.
C4_OutputDirFirst ==
    /\ []C4_Inv
    /\ [][(pc = "mkdir" /\ C4_CreationImpossible)
             => (pc' = "crashed" /\ error' /= "none" /\ invocations' = <<>>)]_vars

C4_Witness ==
    /\ pc = "crashed"
    /\ error = "FileExistsError"
    /\ fs[output_dir] = "blocker"
    /\ \E p \in DOMAIN fs : Len(p) = 1 /\ HasImageSuffix(p[1])

\* The state part of C5: the calls are a prefix of the candidates in listing
\* order, as long as the loop's position says, and at most one child runs.
C5_Inv ==
    /\ Len(invocations) <= Len(Candidates)
    /\ \A k \in 1..Len(invocations) : invocations[k][2] = <<Candidates[k]>>
    /\ Len(invocations) = Cardinality({k \in 1..Len(listing) :
                              listing[k] \in Taken /\ HasImageSuffix(listing[k])})
    /\ children \in {0, 1}
    /\ children = 1 <=> pc = "running"
    /\ pc = "done" => Len(invocations) = Len(Candidates)

\* C5: the calls of subprocess.run are, at every moment, the candidates of the
\* listing in the listing's order, each once, up to the entry the loop is at
\* (all of them when the run ends normally); at most one child runs, and a
\* call is made only when no child is running.
C5_Sequential ==
    /\ []C5_Inv
    /\ [][(run' = run /\ invocations' /= invocations)
             => (children = 0 /\ Len(invocations') = Len(invocations) + 1)]_vars

C5_Witness ==
    /\ pc = "done"
    /\ Len(invocations) = 2
    /\ Len(writes) = 1

\* C6: every call has the argument list magick, the candidate's path,
\* -resize, 512x512>, and "resized" joined with the candidate's unchanged name.
C6_ArgvShape ==
    \A k \in 1..Len(invocations) :
        /\ k <= Len(Candidates)
        /\ invocations[k] = ExpectedArgv(Candidates[k])

C6_Witness ==
    /\ Len(invocations) > 0
    /\ invocations[Len(invocations)] = ExpectedArgv(f_x_WebP)

\* The loop is at a candidate whose destination already exists.
C7_AtExisting ==
    /\ AtCandidate
    /\ Resolve(<<resized, listing[i + 1]>>) \in DOMAIN fs

\* C7: at a candidate whose destination already exists, the script calls
\* subprocess.run with that destination (it does not skip, rename or raise
\* because of it), and a child that succeeds replaces the file.
C7_OverwriteExisting ==
    /\ [][C7_AtExisting =>
            /\ invocations' = Append(invocations, ExpectedArgv(listing[i + 1]))
            /\ toolInstalled => (pc' = "running" /\ error' = "none")]_vars
    /\ [][(pc = "running" /\ proc = "exit0") =>
            /\ pc' = "loop" /\ error' = "none"
            /\ LET dest == Resolve(invocations[Len(invocations)][5])
               IN dest \in DOMAIN fs' /\ fs'[dest] = (IF run = 1 THEN "out1" ELSE "out2")]_vars

C7_Witness ==
    /\ pc = "done"
    /\ fs[output_dir] = "dir"
    /\ \E k \in 1..Len(writes) :
          /\ writes[k].old \in {"stale", "out1"}
          /\ writes[k].path = <<resized, a_jpg>>
          /\ fs[writes[k].path] = (IF run = 1 THEN "out1" ELSE "out2")

\* The destinations of a run are pairwise distinct, and none is the source of
\* a candidate or the path of any entry of the working directory.
C9_Paths ==
    /\ \A k, m \in 1..Len(invocations) : k /= m => invocations[k][5] /= invocations[m][5]
    /\ \A k, m \in 1..Len(invocations) : invocations[k][5] /= invocations[m][2]
    /\ \A k \in 1..Len(invocations) : invocations[k][5] \notin {<<n>> : n \in EntryNames}

\* No child of the run has replaced an input or an output of the same run.
C9_NoClobber ==
    /\ \A k \in 1..Len(writes) : writes[k].old \notin {"input", "dir", "link"}
    /\ \A k, m \in 1..Len(writes) : k /= m => writes[k].path /= writes[m].path
    /\ run = 1 => \A n \in FileNames : <<n>> \in DOMAIN fs => fs[<<n>>] = "input"

C10_NeverReturns ==
    \/ pc = "running" /\ proc = "hang"
    \/ pc = "crashed" /\ error = "FileNotFoundError"

====
